---- MODULE Spec2Model ----
(***************************************************************************)
(* Model of the invoice manager: the totals calculators                    *)
(* (archive/backup/main.py Service.totals and                              *)
(* archive/backup/main_refactored.py BusinessService.calculate_totals),    *)
(* the SQLite tables they read, the keyboard-only wizard that drives them  *)
(* and the management pages (main_with_management.py) that edit the same   *)
(* tables.                                                                 *)
(*                                                                         *)
(* Amounts are integers in minor units (cents).  A Python dict is modelled *)
(* as a sequence of entries in insertion order, which is the order in      *)
(* which dict.items() iterates.                                            *)
(***************************************************************************)
EXTENDS Integers, Sequences, FiniteSets, TLC

\* ---------------------------------------------------------------- bounds
\* longest line-item list handed to the calculators in SpecTotals
MaxLen == 3

\* quantities, unit prices (cents) and VAT rates (percent) of the line items
\* the calculators are tried on; 50 cents at 5 % (2.5) and at 27 % (13.5)
\* are exact .5 ties of round(), 101 cents gives the fractions .05 and .27
Qtys == {0, 1, 2}
Units == {50, 101, 69900}
Vats == {5, 27}

\* ---------------------------------------------------------------- state
VARIABLES
    lines,      \* SpecTotals: the list Repo.list_items returned (the input)
    t,          \* SpecTotals: <<>> or <<result of Service.totals>>
    bt,         \* SpecTotals: <<>> or <<result of BusinessService.calculate_totals>>
    \* the SQLite tables, each a function from the ids of its rows to the row
    partner,        \* id -> [kind]
    product,        \* id -> [sku, unit_price_cents, vat_rate]
    invoice,        \* id -> [number, partner_id, direction]
    invoice_item,   \* id -> [invoice_id, product_id, qty, unit_price_cents, vat_rate]
    \* the keyboard-only wizard (archive/backup/main.py); 0 stands for None
    page,               \* stack.currentWidget(): "list", "dir", "items", "review"
    current_direction,  \* MainWindow.current_direction
    current_partner_id, \* MainWindow.current_partner_id
    current_inv_id,     \* MainWindow.current_inv_id
    dir_direction,      \* DirectionPage.direction
    items_inv_id,       \* ItemsPage.inv_id
    items_table,        \* ItemsPage.table: the rows shown
    cursor,             \* ItemsPage.table: the selected row, 0 when none
    items_totals,       \* ItemsPage.totals: <<>> or <<the totals shown>>
    review_inv_id,      \* ReviewPage.inv_id
    review_totals,      \* ReviewPage.net/vat/gross: <<>> or <<the totals shown>>
    review_details,     \* ReviewPage.details: the breakdown lines shown
    \* the invoice detail widget of the management window
    detail_invoice_id,  \* InvoiceDetailWidget.current_invoice_id
    detail_items,       \* InvoiceDetailWidget.items_table: the item ids of the rows
    vat_table,          \* InvoiceDetailWidget.vat_table: the rows shown
    detail_totals,      \* InvoiceDetailWidget.totals_label: <<>> or <<the totals shown>>
    dialog,             \* the open InvoiceItemDialog: <<>> or <<[invoice_id, item_id]>>
    \* the product page of the management window
    product_table,      \* ProductListPage.table: shown id -> the product row
    warning,            \* the QMessageBox.warning/.critical of the last handler, "" when none
    \* the database connections of the management window and its tests
    connections,        \* every connection made so far: [open, uncommitted]
    init_calls          \* how many calls of init_database returned normally

calcVars   == <<lines, t, bt>>
connVars   == <<connections, init_calls>>
dbVars     == <<partner, product, invoice, invoice_item>>
navVars    == <<page, current_direction, current_partner_id, current_inv_id, dir_direction>>
itemsVars  == <<items_inv_id, items_table, cursor, items_totals>>
reviewVars == <<review_inv_id, review_totals, review_details>>
detailVars == <<detail_invoice_id, detail_items, vat_table, detail_totals, dialog,
                product_table>>
wizardVars == <<navVars, itemsVars, reviewVars>>

vars == <<calcVars, dbVars, wizardVars, detailVars, warning, connVars>>

\* ------------------------------------------------- the totals calculators

\* Python's round(n / d) for an integer n and d > 0, as int(round(n/d)) in
\* Service.totals computes it: n/d is a float division and round() rounds to
\* the nearest integer with ties going to the EVEN neighbour.  (\div is the
\* floor division and % the non-negative remainder, so this also covers
\* n < 0.  The float n/d is exact to 53 bits, far above the amounts here.)
PyRoundDiv(n, d) ==
    LET q == n \div d
        r == n % d
    IN  IF 2 * r < d THEN q
        ELSE IF 2 * r > d THEN q + 1
        ELSE IF q % 2 = 0 THEN q ELSE q + 1

\* variant: the dict starts with a bucket for the schema's default rate
\* (per_rate = {27: {"base":0,"vat":0}})
per_rate_default_bucket == << [rate |-> 27, base |-> 0, vat |-> 0] >>

\* per_rate: Dict[int, Dict[str,int]] = {}
per_rate_empty == << >>

\* index of the entry of key rate in the dict, 0 when the key is absent
DictIndex(per_rate, rate) ==
    IF \E i \in 1..Len(per_rate) : per_rate[i].rate = rate
    THEN CHOOSE i \in 1..Len(per_rate) : per_rate[i].rate = rate
    ELSE 0

\* variant: the bucket is overwritten instead of accumulated
\* (per_rate[rate] = {"base": ln, "vat": 0})
per_rate_add_overwrite(per_rate, rate, ln) ==
    LET i == DictIndex(per_rate, rate)
    IN  IF i = 0
        THEN Append(per_rate, [rate |-> rate, base |-> ln, vat |-> 0])
        ELSE [per_rate EXCEPT ![i].base = ln]

\* variant: an item whose net is 0 opens no bucket
\* (if ln: per_rate.setdefault(...)["base"] += ln)
per_rate_add_skip_zero(per_rate, rate, ln) ==
    LET i == DictIndex(per_rate, rate)
    IN  IF ln = 0
        THEN per_rate
        ELSE IF i = 0
             THEN Append(per_rate, [rate |-> rate, base |-> ln, vat |-> 0])
             ELSE [per_rate EXCEPT ![i].base = @ + ln]

\* per_rate.setdefault(rate, {"base":0,"vat":0})["base"] += ln
per_rate_add(per_rate, rate, ln) ==
    LET i == DictIndex(per_rate, rate)
    IN  IF i = 0
        THEN Append(per_rate, [rate |-> rate, base |-> ln, vat |-> 0])
        ELSE [per_rate EXCEPT ![i].base = @ + ln]

\* variant: the quantity is forgotten (ln = it["unit"])
line_net_unit_only(it) == it.unit

\* ln = it["qty"] * it["unit"]
line_net(it) == it.qty * it.unit

\* the first loop of Service.totals: net and per_rate after the items
\* ls[1..n] were visited
RECURSIVE first_loop(_, _)
first_loop(ls, n) ==
    IF n = 0
    THEN [net |-> 0, per_rate |-> per_rate_empty]
    ELSE LET acc == first_loop(ls, n - 1)
             ln  == line_net(ls[n])
         IN  [net      |-> acc.net + ln,
              per_rate |-> per_rate_add(acc.per_rate, ls[n].vat, ln)]

\* v = int(round(d["base"]*rate/100))
bucket_vat(base, rate) == PyRoundDiv(base * rate, 100)

\* the second loop: d["vat"] = v for every entry of per_rate
second_loop(per_rate) ==
    [i \in 1..Len(per_rate) |->
        [per_rate[i] EXCEPT !.vat = bucket_vat(per_rate[i].base, per_rate[i].rate)]]

\* variant: the tax total is rounded once, from the unrounded sum
\* (vat_total = int(round(sum(base*rate)/100)))
RECURSIVE raw_vat_sum(_, _)
raw_vat_sum(rates, n) ==
    IF n = 0 THEN 0 ELSE raw_vat_sum(rates, n - 1) + rates[n].base * rates[n].rate

vat_total_rounded_once(rates, n) == PyRoundDiv(raw_vat_sum(rates, n), 100)

\* vat_total = 0; vat_total += v for every entry
RECURSIVE vat_total_of(_, _)
vat_total_of(rates, n) ==
    IF n = 0 THEN 0 ELSE vat_total_of(rates, n - 1) + rates[n].vat

\* variant: the tax is left out of the gross ("gross": net)
gross_without_tax(net, vat_total) == net

\* "gross": net+vat_total
gross_of(net, vat_total) == net + vat_total

\* variant: the defensive calculator, which reports InvalidLineItem for an
\* item with a negative quantity, unit price or rate
Service_totals_defensive(ls) ==
    IF \E i \in 1..Len(ls) : ls[i].qty < 0 \/ ls[i].unit < 0 \/ ls[i].vat < 0
    THEN [error |-> "InvalidLineItem"]
    ELSE LET acc       == first_loop(ls, Len(ls))
             rates     == second_loop(acc.per_rate)
             vat_total == vat_total_of(rates, Len(rates))
         IN  [net |-> acc.net, vat |-> vat_total,
              gross |-> gross_of(acc.net, vat_total), rates |-> rates]

\* Service.totals, from the list that Repo.list_items returned
Service_totals(ls) ==
    LET acc       == first_loop(ls, Len(ls))
        rates     == second_loop(acc.per_rate)
        vat_total == vat_total_of(rates, Len(rates))
    IN  [net |-> acc.net, vat |-> vat_total,
         gross |-> gross_of(acc.net, vat_total), rates |-> rates]

\* BusinessService.calculate_totals: the same computation, with
\* "if rate not in per_rate: per_rate[rate] = {...}" for setdefault
RECURSIVE calc_first_loop(_, _)
calc_first_loop(ls, n) ==
    IF n = 0
    THEN [net |-> 0, per_rate |-> << >>]
    ELSE LET acc        == calc_first_loop(ls, n - 1)
             line_total == ls[n].qty * ls[n].unit
             rate       == ls[n].vat
             pr         == IF DictIndex(acc.per_rate, rate) = 0
                           THEN Append(acc.per_rate, [rate |-> rate, base |-> 0, vat |-> 0])
                           ELSE acc.per_rate
         IN  [net      |-> acc.net + line_total,
              per_rate |-> [pr EXCEPT ![DictIndex(pr, rate)].base = @ + line_total]]

BusinessService_calculate_totals(ls) ==
    LET acc   == calc_first_loop(ls, Len(ls))
        rates == [i \in 1..Len(acc.per_rate) |->
                    [acc.per_rate[i] EXCEPT
                        !.vat = PyRoundDiv(acc.per_rate[i].base * acc.per_rate[i].rate, 100)]]
        vat_total == vat_total_of(rates, Len(rates))
    IN  [net |-> acc.net, vat |-> vat_total,
         gross |-> acc.net + vat_total, rates |-> rates]

\* ------------------------------------------------------------ the tables

\* caps on the rowids the tables hand out (a rowid is max(rowid) + 1)
MaxProductId == 6
MaxInvoiceId == 1
MaxItemId == 2
\* cap on the quantity the Right/Enter key counts up to
MaxQty == 2

Max(S) == CHOOSE x \in S : \A y \in S : y <= x
Min(S) == CHOOSE x \in S : \A y \in S : x <= y

\* the ids of S as an ascending sequence (ORDER BY id ASC)
RECURSIVE Ascending(_)
Ascending(S) == IF S = {} THEN << >> ELSE << Min(S) >> \o Ascending(S \ {Min(S)})

\* cur.lastrowid of an INSERT into an INTEGER PRIMARY KEY table
NewRowId(table) == IF DOMAIN table = {} THEN 1 ELSE Max(DOMAIN table) + 1

InsertRow(table, row) == table @@ (NewRowId(table) :> row)
DeleteRows(table, ids) == [id \in DOMAIN table \ ids |-> table[id]]

\* variant: the invoice table without UNIQUE on number
number_taken_never(table, number, own_id) == FALSE

\* number TEXT NOT NULL UNIQUE: a row other than own_id has this number, so
\* the INSERT or UPDATE raises sqlite3.IntegrityError
number_taken(table, number, own_id) ==
    \E id \in DOMAIN table : id # own_id /\ table[id].number = number

\* number = f"INV{int(time.time())}": the numbers the clock gives the wizard
\* (two invoices made within one second get the same one)
ClockNumbers == {"INV1", "INV2"}

\* seed_data: the five seed products and the three seed partners
SeedProducts ==
    (1 :> [sku |-> "SKU001", unit_price_cents |-> 69900,  vat_rate |-> 5])  @@
    (2 :> [sku |-> "SKU002", unit_price_cents |-> 39900,  vat_rate |-> 18]) @@
    (3 :> [sku |-> "SKU003", unit_price_cents |-> 299900, vat_rate |-> 27]) @@
    (4 :> [sku |-> "SKU004", unit_price_cents |-> 34900,  vat_rate |-> 27]) @@
    (5 :> [sku |-> "SKU005", unit_price_cents |-> 59900,  vat_rate |-> 27])

SeedPartners ==
    (1 :> [kind |-> "customer"]) @@
    (2 :> [kind |-> "customer"]) @@
    (3 :> [kind |-> "supplier"])

\* init_db on a new database file: the schema, then seed_data
InitDb ==
    /\ partner = SeedPartners
    /\ product = SeedProducts
    /\ invoice = << >>
    /\ invoice_item = << >>

\* Repo.list_partners(kind): ... WHERE kind=? ORDER BY id ASC
Repo_list_partners(kind) ==
    LET ids == Ascending({ id \in DOMAIN partner : partner[id].kind = kind })
    IN  [i \in 1..Len(ids) |-> [id |-> ids[i], kind |-> kind]]

\* Repo.list_products: ... ORDER BY id ASC
Repo_list_products ==
    LET ids == Ascending(DOMAIN product)
    IN  [i \in 1..Len(ids) |->
            [id |-> ids[i], unit |-> product[ids[i]].unit_price_cents,
             vat |-> product[ids[i]].vat_rate]]

\* variant: the price and rate are read from the product row of the join
\* (p.unit_price_cents, p.vat_rate), not from the invoice_item row
Repo_list_items_live(ii, p, inv_id) ==
    LET ids == Ascending({ id \in DOMAIN ii :
                            /\ ii[id].invoice_id = inv_id
                            /\ ii[id].product_id \in DOMAIN p })
    IN  [i \in 1..Len(ids) |->
            [id   |-> ids[i],
             qty  |-> ii[ids[i]].qty,
             unit |-> p[ii[ids[i]].product_id].unit_price_cents,
             vat  |-> p[ii[ids[i]].product_id].vat_rate]]

\* Repo.list_items: SELECT ii.id,...,ii.qty,ii.unit_price_cents,ii.vat_rate
\* FROM invoice_item ii JOIN product p ON p.id=ii.product_id
\* WHERE ii.invoice_id=? ORDER BY ii.id ASC, on the tables ii (invoice_item)
\* and p (product) as the connection sees them at the time of the call
Repo_list_items(ii, p, inv_id) ==
    LET ids == Ascending({ id \in DOMAIN ii :
                            /\ ii[id].invoice_id = inv_id
                            /\ ii[id].product_id \in DOMAIN p })
    IN  [i \in 1..Len(ids) |->
            [id   |-> ids[i],
             qty  |-> ii[ids[i]].qty,
             unit |-> ii[ids[i]].unit_price_cents,
             vat  |-> ii[ids[i]].vat_rate]]

\* variant: the item keeps the schema's default rate (vat_rate DEFAULT 27)
\* instead of the product's
Repo_add_item_default_vat(inv_id, product_id, qty) ==
    InsertRow(invoice_item,
        [invoice_id |-> inv_id, product_id |-> product_id, qty |-> qty,
         unit_price_cents |-> product[product_id].unit_price_cents,
         vat_rate |-> 27])

\* Repo.add_item: the invoice_item table after the INSERT, for an existing
\* product (p[0], p[1] are the product's unit_price_cents and vat_rate)
Repo_add_item(inv_id, product_id, qty) ==
    InsertRow(invoice_item,
        [invoice_id |-> inv_id, product_id |-> product_id, qty |-> qty,
         unit_price_cents |-> product[product_id].unit_price_cents,
         vat_rate |-> product[product_id].vat_rate])

\* Repo.set_item_qty: UPDATE invoice_item SET qty=? WHERE id=?
Repo_set_item_qty(item_id, qty) ==
    [invoice_item EXCEPT ![item_id].qty = qty]

\* Repo.delete_item: DELETE FROM invoice_item WHERE id=?
Repo_delete_item(item_id) == DeleteRows(invoice_item, {item_id})

\* Service.totals(inv_id): lines = self.r.list_items(inv_id), then the loops
totals(ii, p, inv_id) == Service_totals(Repo_list_items(ii, p, inv_id))

\* ------------------------------------------------- the keyboard-only wizard

\* the partner-dialog rows and the product-dialog rows the user picks
\* (0-based row indices, as ListSelectDialog.current_index returns them)
PartnerIdxs == {0, 1, 2}
ProductIdxs == {0}

\* MainWindow.__init__: show_list() on the invoice list page
InitWizard ==
    /\ page = "list"
    /\ current_direction = "sale"
    /\ current_partner_id = 0
    /\ current_inv_id = 0
    /\ dir_direction = "sale"
    /\ items_inv_id = 0
    /\ items_table = << >>
    /\ cursor = 0
    /\ items_totals = << >>
    /\ review_inv_id = 0
    /\ review_totals = << >>
    /\ review_details = << >>

\* variant: the breakdown is shown in the dict's own (insertion) order
unsorted(rates) == rates

\* sorted(t['rates'].items()): the (rate, d) pairs in ascending order; the
\* keys of a dict are distinct, so the rate alone decides the order
RECURSIVE sorted(_)
sorted(rates) ==
    IF rates = << >> THEN << >>
    ELSE LET m == CHOOSE i \in 1..Len(rates) :
                    \A j \in 1..Len(rates) : rates[i].rate <= rates[j].rate
             rest == [k \in 1..(Len(rates) - 1) |->
                        IF k < m THEN rates[k] ELSE rates[k + 1]]
         IN  << rates[m] >> \o sorted(rest)

\* ItemsPage.refresh, after the tables and self.inv_id were written (it
\* reads the new ones): the rows, selectRow(0) when there are any, the
\* totals label
ItemsPage_refresh ==
    IF items_inv_id' = 0
    THEN UNCHANGED <<items_table, cursor, items_totals>>
    ELSE /\ items_table' = Repo_list_items(invoice_item', product', items_inv_id')
         /\ cursor' = IF Len(Repo_list_items(invoice_item', product', items_inv_id')) > 0
                      THEN 1 ELSE 0
         /\ items_totals' = << totals(invoice_item', product', items_inv_id') >>

\* ItemsPage.set_invoice
ItemsPage_set_invoice(inv_id) ==
    /\ items_inv_id' = inv_id
    /\ ItemsPage_refresh

\* ReviewPage.set_invoice: one line per rate of sorted(t['rates'].items()),
\* no line ("Nincsenek tételek") for an invoice without items
ReviewPage_set_invoice(inv_id) ==
    /\ review_inv_id' = inv_id
    /\ review_totals' = << totals(invoice_item', product', inv_id) >>
    /\ review_details' = sorted(totals(invoice_item', product', inv_id).rates)

\* ItemsPage.selected_item_id: the id at the selected row of a fresh
\* list_items, 0 (None) without a selection or past the end of the list
ItemsPage_selected_item_id ==
    IF cursor >= 1 /\ cursor <= Len(Repo_list_items(invoice_item, product, items_inv_id))
    THEN Repo_list_items(invoice_item, product, items_inv_id)[cursor].id
    ELSE 0

\* MainWindow.keyPressEvent on the list page, Insert: start_new_invoice with
\* the confirmation accepted
MainWindow_start_new_invoice ==
    /\ page = "list"
    /\ current_direction' = "sale"
    /\ current_partner_id' = 0
    /\ current_inv_id' = 0
    /\ page' = "dir"
    /\ UNCHANGED <<calcVars, connVars, warning, dbVars, dir_direction, itemsVars, reviewVars, detailVars>>

\* MainWindow.keyPressEvent on the list page, Enter on an invoice of the list
MainWindow_open_invoice(inv_id) ==
    /\ page = "list"
    /\ inv_id \in DOMAIN invoice
    /\ current_inv_id' = inv_id
    /\ UNCHANGED dbVars
    /\ ItemsPage_set_invoice(inv_id)
    /\ page' = "items"
    /\ UNCHANGED <<calcVars, connVars, warning, current_direction, current_partner_id, dir_direction,
                   reviewVars, detailVars>>

\* MainWindow.keyPressEvent on the list page, Delete with the confirmation
\* accepted: Repo.delete_invoice; the wizard's connection has foreign_keys=ON,
\* so ON DELETE CASCADE removes the invoice's items
MainWindow_delete_invoice(inv_id) ==
    /\ page = "list"
    /\ inv_id \in DOMAIN invoice
    /\ invoice' = DeleteRows(invoice, {inv_id})
    /\ invoice_item' = DeleteRows(invoice_item,
            { id \in DOMAIN invoice_item : invoice_item[id].invoice_id = inv_id })
    /\ UNCHANGED <<calcVars, connVars, warning, partner, product, wizardVars, detailVars>>

\* DirectionPage.keyPressEvent, Left and Right
DirectionPage_key_left ==
    /\ page = "dir"
    /\ dir_direction' = "purchase"
    /\ UNCHANGED <<calcVars, connVars, warning, dbVars, page, current_direction, current_partner_id,
                   current_inv_id, itemsVars, reviewVars, detailVars>>

DirectionPage_key_right ==
    /\ page = "dir"
    /\ dir_direction' = "sale"
    /\ UNCHANGED <<calcVars, connVars, warning, dbVars, page, current_direction, current_partner_id,
                   current_inv_id, itemsVars, reviewVars, detailVars>>

\* variant: the partner dialog lists the customers whatever the direction
partner_kind_customer(direction) == "customer"

\* kind = 'customer' if direction == 'sale' else 'supplier'
partner_kind(direction) == IF direction = "sale" THEN "customer" ELSE "supplier"

\* the partner dialog direction_chosen has opened for the direction of the
\* direction page (while it is open the page gets no key), Insert: on_new
\* adds the partner "Új partner" of the dialog's kind and commits
MaxPartnerId == 4
ListSelectDialog_key_insert ==
    /\ page = "dir"
    /\ NewRowId(partner) <= MaxPartnerId
    /\ current_direction' = dir_direction
    /\ partner' = InsertRow(partner, [kind |-> partner_kind(dir_direction)])
    /\ UNCHANGED <<product, invoice, invoice_item>>
    /\ UNCHANGED <<calcVars, connVars, warning, page, current_partner_id, current_inv_id,
                   dir_direction, itemsVars, reviewVars, detailVars>>

\* the same dialog, Delete on row idx with the confirmation accepted: on_del
\* deletes the partner and commits.  The wizard's connection has PRAGMA
\* foreign_keys=ON (init_db), so the DELETE of a partner an invoice
\* references raises sqlite3.IntegrityError and deletes nothing
ListSelectDialog_key_delete(idx) ==
    LET rows == Repo_list_partners(partner_kind(dir_direction))
    IN  /\ page = "dir"
        /\ 0 <= idx /\ idx < Len(rows)
        /\ current_direction' = dir_direction
        /\ partner' = IF \E id \in DOMAIN invoice : invoice[id].partner_id = rows[idx + 1].id
                      THEN partner
                      ELSE DeleteRows(partner, {rows[idx + 1].id})
        /\ UNCHANGED <<product, invoice, invoice_item>>
        /\ UNCHANGED <<calcVars, connVars, warning, page, current_partner_id, current_inv_id,
                       dir_direction, itemsVars, reviewVars, detailVars>>

\* DirectionPage.keyPressEvent, Enter: MainWindow.direction_chosen with the
\* partner dialog accepted on row idx (-1 when the dialog has no row)
MainWindow_direction_chosen(idx, number) ==
    LET kind == partner_kind(dir_direction)
        rows == Repo_list_partners(kind)
    IN  /\ page = "dir"
        /\ idx \in (IF rows = << >> THEN {-1} ELSE PartnerIdxs \cap (0..(Len(rows) - 1)))
        /\ current_direction' = dir_direction
        /\ IF 0 <= idx /\ idx < Len(rows)
           THEN /\ NewRowId(invoice) <= MaxInvoiceId
                /\ current_partner_id' = rows[idx + 1].id
                /\ IF number_taken(invoice, number, 0)
                   THEN \* create_invoice raises sqlite3.IntegrityError
                        UNCHANGED <<dbVars, current_inv_id, itemsVars, page>>
                   ELSE /\ invoice' = InsertRow(invoice,
                                [number |-> number, partner_id |-> rows[idx + 1].id,
                                 direction |-> dir_direction])
                        /\ current_inv_id' = NewRowId(invoice)
                        /\ UNCHANGED <<partner, product, invoice_item>>
                        /\ ItemsPage_set_invoice(NewRowId(invoice))
                        /\ page' = "items"
           ELSE UNCHANGED <<dbVars, current_partner_id, current_inv_id, itemsVars, page>>
        /\ UNCHANGED <<calcVars, connVars, warning, dir_direction, reviewVars, detailVars>>

\* MainWindow.direction_chosen with the partner dialog rejected
MainWindow_direction_rejected ==
    /\ page = "dir"
    /\ current_direction' = dir_direction
    /\ page' = "dir"
    /\ UNCHANGED <<calcVars, connVars, warning, dbVars, current_partner_id, current_inv_id, dir_direction,
                   itemsVars, reviewVars, detailVars>>

\* DirectionPage.keyPressEvent, Escape: cancel_new_invoice -> show_list
MainWindow_cancel_new_invoice ==
    /\ page = "dir"
    /\ page' = "list"
    /\ UNCHANGED <<calcVars, connVars, warning, dbVars, current_direction, current_partner_id, current_inv_id,
                   dir_direction, itemsVars, reviewVars, detailVars>>

\* ItemsPage.keyPressEvent, Insert: add_item_via_selector with the product
\* dialog accepted on row idx, then page_items.refresh()
MainWindow_add_item_via_selector(idx) ==
    LET products == Repo_list_products
    IN  /\ page = "items"
        /\ current_inv_id # 0
        /\ idx \in ProductIdxs
        /\ 0 <= idx /\ idx < Len(products)
        /\ NewRowId(invoice_item) <= MaxItemId
        /\ invoice_item' = Repo_add_item(current_inv_id, products[idx + 1].id, 1)
        /\ UNCHANGED <<partner, product, invoice>>
        /\ UNCHANGED items_inv_id
        /\ ItemsPage_refresh
        /\ UNCHANGED <<calcVars, connVars, warning, navVars, reviewVars, detailVars>>

\* ItemsPage.keyPressEvent, Delete with the confirmation accepted
ItemsPage_key_delete ==
    /\ page = "items"
    /\ ItemsPage_selected_item_id # 0
    /\ invoice_item' = Repo_delete_item(ItemsPage_selected_item_id)
    /\ UNCHANGED <<partner, product, invoice>>
    /\ UNCHANGED items_inv_id
    /\ ItemsPage_refresh
    /\ UNCHANGED <<calcVars, connVars, warning, navVars, reviewVars, detailVars>>

\* variant: the quantity is lowered without a floor (new_q = qty - 1)
key_left_new_q_unbounded(q) == q - 1

\* new_q = max(0, items[idx]['qty'] - 1)
key_left_new_q(q) == Max({0, q - 1})

\* ItemsPage.keyPressEvent, Left
ItemsPage_key_left ==
    /\ page = "items"
    /\ ItemsPage_selected_item_id # 0
    /\ LET q == Repo_list_items(invoice_item, product, items_inv_id)[cursor].qty
       IN  invoice_item' = Repo_set_item_qty(ItemsPage_selected_item_id,
                                              key_left_new_q(q))
    /\ UNCHANGED <<partner, product, invoice>>
    /\ UNCHANGED items_inv_id
    /\ ItemsPage_refresh
    /\ UNCHANGED <<calcVars, connVars, warning, navVars, reviewVars, detailVars>>

\* ItemsPage.keyPressEvent, Right/Return/Enter: new_q = items[idx]['qty'] + 1
ItemsPage_key_right ==
    /\ page = "items"
    /\ ItemsPage_selected_item_id # 0
    /\ Repo_list_items(invoice_item, product, items_inv_id)[cursor].qty < MaxQty
    /\ invoice_item' = Repo_set_item_qty(ItemsPage_selected_item_id,
                            Repo_list_items(invoice_item, product, items_inv_id)[cursor].qty + 1)
    /\ UNCHANGED <<partner, product, invoice>>
    /\ UNCHANGED items_inv_id
    /\ ItemsPage_refresh
    /\ UNCHANGED <<calcVars, connVars, warning, navVars, reviewVars, detailVars>>

\* the user moves the selection of the items table to another row
ItemsPage_select_row(row) ==
    /\ page = "items"
    /\ row \in 1..Len(items_table)
    /\ row # cursor
    /\ cursor' = row
    /\ UNCHANGED <<calcVars, connVars, warning, dbVars, navVars, items_inv_id, items_table, items_totals,
                   reviewVars, detailVars>>

\* variant: the review re-reads price and rate of every item of the invoice
\* from its product and stores them (UPDATE invoice_item SET
\* unit_price_cents = p.unit_price_cents, vat_rate = p.vat_rate ...)
MainWindow_to_review_resync ==
    /\ page = "items"
    /\ current_inv_id # 0
    /\ invoice_item' =
            [id \in DOMAIN invoice_item |->
                IF /\ invoice_item[id].invoice_id = current_inv_id
                   /\ invoice_item[id].product_id \in DOMAIN product
                THEN [invoice_item[id] EXCEPT
                        !.unit_price_cents =
                            product[invoice_item[id].product_id].unit_price_cents,
                        !.vat_rate = product[invoice_item[id].product_id].vat_rate]
                ELSE invoice_item[id]]
    /\ UNCHANGED <<partner, product, invoice, current_inv_id>>
    /\ ReviewPage_set_invoice(current_inv_id)
    /\ page' = "review"
    /\ UNCHANGED <<calcVars, connVars, warning, current_direction, current_partner_id,
                   dir_direction, itemsVars, detailVars>>

\* ItemsPage.keyPressEvent, Escape: MainWindow.to_review
MainWindow_to_review ==
    /\ page = "items"
    /\ current_inv_id # 0
    /\ UNCHANGED <<dbVars, current_inv_id>>
    /\ ReviewPage_set_invoice(current_inv_id)
    /\ page' = "review"
    /\ UNCHANGED <<calcVars, connVars, warning, current_direction, current_partner_id,
                   dir_direction, itemsVars, detailVars>>

\* ReviewPage.keyPressEvent, Escape: MainWindow.back_to_items
MainWindow_back_to_items ==
    /\ page = "review"
    /\ current_inv_id # 0
    /\ UNCHANGED <<dbVars, current_inv_id>>
    /\ ItemsPage_set_invoice(current_inv_id)
    /\ page' = "items"
    /\ UNCHANGED <<calcVars, connVars, warning, current_direction, current_partner_id,
                   dir_direction, reviewVars, detailVars>>

\* variant: back to the list with the invoice still current
finish_keeps_current_invoice ==
    /\ page = "review"
    /\ current_direction' = "sale"
    /\ current_partner_id' = 0
    /\ page' = "list"
    /\ UNCHANGED <<calcVars, connVars, warning, dbVars, current_inv_id, dir_direction,
                   itemsVars, reviewVars, detailVars>>

\* ReviewPage.keyPressEvent, Enter with the confirmation accepted:
\* MainWindow.finish_and_back_to_list
MainWindow_finish_and_back_to_list ==
    /\ page = "review"
    /\ current_direction' = "sale"
    /\ current_partner_id' = 0
    /\ current_inv_id' = 0
    /\ page' = "list"
    /\ UNCHANGED <<calcVars, connVars, warning, dbVars, dir_direction, itemsVars, reviewVars, detailVars>>

WizardNext ==
    \/ MainWindow_start_new_invoice
    \/ \E inv_id \in 1..MaxInvoiceId : MainWindow_open_invoice(inv_id)
    \/ \E inv_id \in 1..MaxInvoiceId : MainWindow_delete_invoice(inv_id)
    \/ DirectionPage_key_left
    \/ DirectionPage_key_right
    \/ \E idx \in -1..2, number \in ClockNumbers : MainWindow_direction_chosen(idx, number)
    \/ MainWindow_direction_rejected
    \/ MainWindow_cancel_new_invoice
    \/ \E idx \in ProductIdxs : MainWindow_add_item_via_selector(idx)
    \/ ItemsPage_key_delete
    \/ ItemsPage_key_left
    \/ ItemsPage_key_right
    \/ \E row \in 1..MaxItemId : ItemsPage_select_row(row)
    \/ MainWindow_to_review
    \/ MainWindow_back_to_items
    \/ MainWindow_finish_and_back_to_list

\* the wizard's way through its pages: every handler of WizardNext but the
\* item rows' cursor, quantity and delete keys, which leave the page and the
\* current invoice alone
NextNavigation ==
    \/ MainWindow_start_new_invoice
    \/ \E inv_id \in 1..MaxInvoiceId : MainWindow_open_invoice(inv_id)
    \/ \E inv_id \in 1..MaxInvoiceId : MainWindow_delete_invoice(inv_id)
    \/ DirectionPage_key_left
    \/ DirectionPage_key_right
    \/ \E idx \in -1..2, number \in ClockNumbers : MainWindow_direction_chosen(idx, number)
    \/ MainWindow_direction_rejected
    \/ MainWindow_cancel_new_invoice
    \/ \E idx \in ProductIdxs : MainWindow_add_item_via_selector(idx)
    \/ MainWindow_to_review
    \/ MainWindow_back_to_items
    \/ MainWindow_finish_and_back_to_list

\* the creation of invoices in the wizard, with the partner dialog's Insert
\* and Delete: from the list over the direction page and the partner dialog
\* to the new invoice, and over the review page back to the list
NextPartners ==
    \/ MainWindow_start_new_invoice
    \/ \E inv_id \in 1..MaxInvoiceId : MainWindow_delete_invoice(inv_id)
    \/ DirectionPage_key_left
    \/ DirectionPage_key_right
    \/ ListSelectDialog_key_insert
    \/ \E idx \in PartnerIdxs : ListSelectDialog_key_delete(idx)
    \/ \E idx \in -1..2, number \in ClockNumbers : MainWindow_direction_chosen(idx, number)
    \/ MainWindow_direction_rejected
    \/ MainWindow_cancel_new_invoice
    \/ MainWindow_to_review
    \/ MainWindow_finish_and_back_to_list

\* ------------------------------------------------- the management window

\* what the user enters in the product form and in the invoice item dialog:
\* the product edited and its new price (cents) and rate, the product
\* deleted, and the dialog's
\* product (0 is "-- Egyedi tétel --"), quantity, price (the spin box value
\* in hundredths of a forint) and rate
EditedProducts == {1}
EditPrices == {50}
EditVats == {18}
DialogProducts == {0, 3}
DialogQtys == {1}
DialogPriceSpins == {29}
DialogVats == {5}
DeletedProducts == {1}

\* MainWindow.__init__ of the management window: the invoice page shows no
\* invoice yet, ProductListPage.__init__ has refreshed the product table
InitDetail ==
    /\ detail_invoice_id = 0
    /\ detail_items = << >>
    /\ vat_table = << >>
    /\ detail_totals = << >>
    /\ dialog = << >>
    /\ product_table = SeedProducts
    /\ warning = ""
    /\ connections = << >>
    /\ init_calls = 0

\* int(self.price_spin.value() * 100) for a spin box value of h hundredths,
\* 1 <= h <= 200: the double h/100 times 100 falls just below h for these h
\* (0.29 * 100 = 28.999999999999996), and int() truncates
TruncatedHundredths == {29, 57, 58, 113, 114, 115, 116}
SpinToCents(h) == IF h \in TruncatedHundredths THEN h - 1 ELSE h

\* the loop of InvoiceDetailWidget.load_items over the rows ids[1..n] of
\* the table ii: vat_breakdown (a dict, in insertion order) and the totals.
\* unit_price = cents / 100.0, line_net = quantity * unit_price and
\* line_vat = line_net * (vat_rate / 100.0) are doubles; they are kept here
\* as exact multiples of 1/10000 forint (net = qty * cents * 100,
\* vat = qty * cents * rate)
RECURSIVE load_items_loop(_, _, _)
load_items_loop(ii, ids, n) ==
    IF n = 0
    THEN [vat_breakdown |-> << >>, total_net |-> 0, total_vat |-> 0]
    ELSE LET acc        == load_items_loop(ii, ids, n - 1)
             item       == ii[ids[n]]
             l_net      == item.qty * item.unit_price_cents * 100
             l_vat      == item.qty * item.unit_price_cents * item.vat_rate
             l_total    == l_net + l_vat
             i          == DictIndex(acc.vat_breakdown, item.vat_rate)
             vb         == IF i = 0
                           THEN Append(acc.vat_breakdown,
                                    [rate |-> item.vat_rate, net |-> 0, vat |-> 0, gross |-> 0])
                           ELSE acc.vat_breakdown
             k          == IF i = 0 THEN Len(vb) ELSE i
         IN  [vat_breakdown |-> [vb EXCEPT ![k].net = @ + l_net,
                                           ![k].vat = @ + l_vat,
                                           ![k].gross = @ + l_total],
              total_net |-> acc.total_net + l_net,
              total_vat |-> acc.total_vat + l_vat]

\* variant: the rows follow the dict's own order (for vat_rate in vat_breakdown)
update_vat_summary_unsorted(vat_breakdown) == vat_breakdown

\* InvoiceDetailWidget.update_vat_summary: one row per rate of
\* sorted(vat_breakdown.keys())
update_vat_summary(vat_breakdown) == sorted(vat_breakdown)

\* the item rows load_items reads: ... FROM invoice_item ii LEFT JOIN product
\* ... WHERE ii.invoice_id = ? ORDER BY ii.id
detail_item_ids(ii, inv_id) ==
    Ascending({ id \in DOMAIN ii : ii[id].invoice_id = inv_id })

\* InvoiceDetailWidget.load_items, on the tables as they are after the
\* handler's writes
InvoiceDetailWidget_load_items ==
    IF detail_invoice_id' = 0
    THEN UNCHANGED <<detail_items, vat_table, detail_totals>>
    ELSE LET ids == detail_item_ids(invoice_item', detail_invoice_id')
             acc == load_items_loop(invoice_item', ids, Len(ids))
         IN  /\ detail_items' = ids
             /\ vat_table' = update_vat_summary(acc.vat_breakdown)
             /\ detail_totals' = << [net   |-> acc.total_net,
                                     vat   |-> acc.total_vat,
                                     gross |-> acc.total_net + acc.total_vat] >>

\* InvoiceListPage.on_invoice_selected on the row of an invoice:
\* InvoiceDetailWidget.load_invoice
InvoiceDetailWidget_load_invoice(inv_id) ==
    /\ dialog = << >>
    /\ inv_id \in DOMAIN invoice
    /\ inv_id # detail_invoice_id
    /\ detail_invoice_id' = inv_id
    /\ UNCHANGED dbVars
    /\ InvoiceDetailWidget_load_items
    /\ warning' = ""
    /\ UNCHANGED <<calcVars, connVars, wizardVars, dialog, product_table>>

\* InvoiceListPage.refresh_invoice_list, as far as the detail widget sees it:
\* selectRow(0) moves the selection to the first row (ORDER BY created_utc
\* DESC, the invoice created last) and, when that changes the selection,
\* on_invoice_selected loads that invoice; with no invoice left, clear_details
InvoiceListPage_refresh_invoice_list(shown) ==
    IF DOMAIN invoice' = {}
    THEN /\ detail_invoice_id' = 0
         /\ detail_items' = << >>
         /\ vat_table' = << >>
         /\ detail_totals' = << >>
    ELSE /\ detail_invoice_id' = IF shown \in DOMAIN invoice'
                                 THEN shown ELSE Max(DOMAIN invoice')
         /\ InvoiceDetailWidget_load_items

\* InvoiceDetailWidget.add_item up to dialog.exec_(): the dialog opens for
\* the invoice shown
InvoiceDetailWidget_add_item ==
    /\ dialog = << >>
    /\ detail_invoice_id # 0
    /\ dialog' = << [invoice_id |-> detail_invoice_id, item_id |-> 0] >>
    /\ warning' = ""
    /\ UNCHANGED <<calcVars, connVars, dbVars, wizardVars, detail_invoice_id, detail_items,
                   vat_table, detail_totals, product_table>>

\* InvoiceDetailWidget.edit_item up to dialog.exec_(): the dialog opens for
\* the item of the selected row
InvoiceDetailWidget_edit_item(row) ==
    /\ dialog = << >>
    /\ row \in 1..Len(detail_items)
    /\ dialog' = << [invoice_id |-> detail_invoice_id, item_id |-> detail_items[row]] >>
    /\ warning' = ""
    /\ UNCHANGED <<calcVars, connVars, dbVars, wizardVars, detail_invoice_id, detail_items,
                   vat_table, detail_totals, product_table>>

\* the invoice_item table after the write of InvoiceItemDialog.accept
InvoiceItemDialog_write(d, data) ==
    IF d.item_id # 0
    THEN [id \in DOMAIN invoice_item |->
            IF id = d.item_id
            THEN [invoice_item[id] EXCEPT !.product_id = data.product_id,
                                          !.qty = data.quantity,
                                          !.unit_price_cents = data.unit_price_cents,
                                          !.vat_rate = data.vat_rate]
            ELSE invoice_item[id]]
    ELSE InsertRow(invoice_item,
            [invoice_id |-> d.invoice_id, product_id |-> data.product_id,
             qty |-> data.quantity, unit_price_cents |-> data.unit_price_cents,
             vat_rate |-> data.vat_rate])

\* InvoiceItemDialog.accept (the Save button) on the data get_data returns,
\* and what InvoiceDetailWidget.add_item / edit_item do once exec_() returned
\* Accepted: load_items and the parent's refresh_invoice_list.  The two
\* checks return with a warning and leave the dialog open.  A form whose
\* product is the combo box's first entry "-- Egyedi tétel --" (product_id
\* None, 0 here) fails the NOT NULL constraint of invoice_item.product_id:
\* the with block rolls back, QMessageBox.critical reports it, and the
\* dialog stays open.
InvoiceItemDialog_accept(product_id, quantity, spin, vat_rate) ==
    LET data == [product_id |-> product_id, quantity |-> quantity,
                 unit_price_cents |-> SpinToCents(spin), vat_rate |-> vat_rate]
        returns(message) ==
            /\ warning' = message
            /\ UNCHANGED <<invoice_item, dialog, detail_invoice_id, detail_items,
                           vat_table, detail_totals>>
    IN  /\ dialog # << >>
        /\ UNCHANGED <<partner, product, invoice>>
        /\ IF quantity <= 0
           THEN returns("A mennyiség nem lehet nulla vagy negatív!")
           ELSE IF data.unit_price_cents <= 0
           THEN returns("Az egységár nem lehet nulla vagy negatív!")
           ELSE IF product_id = 0
           THEN returns("Tétel mentése sikertelen")
           ELSE /\ dialog[1].item_id = 0 => NewRowId(invoice_item) <= MaxItemId
                /\ invoice_item' = InvoiceItemDialog_write(dialog[1], data)
                /\ dialog' = << >>
                /\ InvoiceListPage_refresh_invoice_list(detail_invoice_id)
                /\ warning' = ""
        /\ UNCHANGED <<calcVars, connVars, wizardVars, product_table>>

\* InvoiceItemDialog, the Cancel button
InvoiceItemDialog_reject ==
    /\ dialog # << >>
    /\ dialog' = << >>
    /\ warning' = ""
    /\ UNCHANGED <<calcVars, connVars, dbVars, wizardVars, detail_invoice_id, detail_items,
                   vat_table, detail_totals, product_table>>

\* variant: the product table without UNIQUE on sku
sku_taken_never(table, sku, own_id) == FALSE

\* sku TEXT NOT NULL UNIQUE: a row other than own_id has this sku, so the
\* INSERT or UPDATE raises sqlite3.IntegrityError
sku_taken(table, sku, own_id) ==
    \E id \in DOMAIN table : id # own_id /\ table[id].sku = sku

\* ProductListPage.edit_item on the row of product_id, with the form
\* accepted (ProductFormDialog.accept lets only a non-empty sku and a price
\* above 0 through), then refresh(); on IntegrityError the with block rolls
\* back and the warning is shown
ProductListPage_edit_item(product_id, sku, unit_price_cents, vat_rate) ==
    /\ product_id \in DOMAIN product_table
    /\ product_id \in DOMAIN product
    /\ unit_price_cents > 0
    /\ IF sku_taken(product, sku, product_id)
       THEN /\ UNCHANGED <<product, product_table>>
            /\ warning' = "Ez a SKU már létezik!"
       ELSE /\ product' = [product EXCEPT ![product_id] =
                               [sku |-> sku, unit_price_cents |-> unit_price_cents,
                                vat_rate |-> vat_rate]]
            /\ product_table' = product'
            /\ warning' = ""
    /\ UNCHANGED <<partner, invoice, invoice_item>>
    /\ UNCHANGED <<calcVars, connVars, wizardVars, detail_invoice_id, detail_items, vat_table,
                   detail_totals, dialog>>

\* the INSERT of ProductListPage.add_item and MainWindow.new_product with
\* the form accepted; refresh tells whether the product page is refreshed
\* (add_item always does, new_product when the page is the current one)
insert_product(sku, unit_price_cents, vat_rate, refresh) ==
    /\ unit_price_cents > 0
    /\ NewRowId(product) <= MaxProductId
    /\ IF sku_taken(product, sku, 0)
       THEN /\ UNCHANGED <<product, product_table>>
            /\ warning' = "Ez a SKU már létezik!"
       ELSE /\ product' = InsertRow(product,
                               [sku |-> sku, unit_price_cents |-> unit_price_cents,
                                vat_rate |-> vat_rate])
            /\ product_table' = IF refresh THEN product' ELSE product_table
            /\ warning' = ""
    /\ UNCHANGED <<partner, invoice, invoice_item>>
    /\ UNCHANGED <<calcVars, connVars, wizardVars, detail_invoice_id, detail_items, vat_table,
                   detail_totals, dialog>>

ProductListPage_add_item(sku, unit_price_cents, vat_rate) ==
    insert_product(sku, unit_price_cents, vat_rate, TRUE)

MainWindow_new_product(sku, unit_price_cents, vat_rate, on_product_page) ==
    insert_product(sku, unit_price_cents, vat_rate, on_product_page)

\* MainWindow.show_products: product_page.refresh()
MainWindow_show_products ==
    /\ product_table # product
    /\ product_table' = product
    /\ warning' = ""
    /\ UNCHANGED dbVars
    /\ UNCHANGED <<calcVars, connVars, wizardVars, detail_invoice_id, detail_items, vat_table,
                   detail_totals, dialog>>

\* ProductListPage.delete_item on the row of product_id with the confirmation
\* accepted, then refresh().  get_db() opens the connection without
\* PRAGMA foreign_keys=ON, so SQLite does not enforce invoice_item.product_id
\* REFERENCES product(id): the DELETE succeeds for a product that invoice
\* items still name, and those rows stay as they are
ProductListPage_delete_item(product_id) ==
    /\ product_id \in DOMAIN product_table
    /\ product' = DeleteRows(product, {product_id} \cap DOMAIN product)
    /\ UNCHANGED <<partner, invoice, invoice_item>>
    /\ product_table' = product'
    /\ warning' = ""
    /\ UNCHANGED <<calcVars, connVars, wizardVars, detail_invoice_id, detail_items, vat_table,
                   detail_totals, dialog>>

\* PartnerListPage.delete_item on the selected row, answered Yes: DELETE FROM
\* partner WHERE id = ?, commit, refresh().  get_db() opens the connection
\* without PRAGMA foreign_keys=ON, so invoice.partner_id REFERENCES
\* partner(id) is not enforced
PartnerListPage_delete_item(partner_id) ==
    /\ dialog = << >>
    /\ partner_id \in DOMAIN partner
    /\ partner' = DeleteRows(partner, {partner_id})
    /\ UNCHANGED <<product, invoice, invoice_item>>
    /\ warning' = ""
    /\ UNCHANGED <<calcVars, connVars, wizardVars, detailVars>>

\* where the with block of delete_invoice can raise: at the DELETE of the
\* items, at the DELETE of the invoice, at the commit; "none" when it ends
DeleteFailures == {"none", "items", "invoice", "commit"}

\* variant: every statement is committed on its own (autocommit), so the
\* items stay deleted when a later statement raises
delete_invoice_rows_autocommit(invoice_id, fail) ==
    [invoice      |-> IF fail \in {"none", "commit"}
                      THEN DeleteRows(invoice, {invoice_id} \cap DOMAIN invoice)
                      ELSE invoice,
     invoice_item |-> IF fail \in {"none", "invoice", "commit"}
                      THEN DeleteRows(invoice_item,
                               { id \in DOMAIN invoice_item :
                                   invoice_item[id].invoice_id = invoice_id })
                      ELSE invoice_item]

\* with get_db() as conn: DELETE FROM invoice_item WHERE invoice_id = ?;
\* DELETE FROM invoice WHERE id = ?; conn.commit().  The two statements run
\* in the transaction the first opens; when one of them or the commit
\* raises, the with block rolls the transaction back
delete_invoice_rows(invoice_id, fail) ==
    IF fail = "none"
    THEN [invoice      |-> DeleteRows(invoice, {invoice_id} \cap DOMAIN invoice),
          invoice_item |-> DeleteRows(invoice_item,
                               { id \in DOMAIN invoice_item :
                                   invoice_item[id].invoice_id = invoice_id })]
    ELSE [invoice |-> invoice, invoice_item |-> invoice_item]

\* InvoiceListPage.delete_invoice on the selected row, the invoice the
\* detail widget shows: the question answered with reply, the with block
\* raising at fail; after the deletion refresh_invoice_list
InvoiceListPage_delete_invoice(reply, fail) ==
    /\ dialog = << >>
    /\ detail_invoice_id # 0
    /\ reply = "No" => fail = "none"
    /\ IF reply = "Yes"
       THEN /\ invoice' = delete_invoice_rows(detail_invoice_id, fail).invoice
            /\ invoice_item' = delete_invoice_rows(detail_invoice_id, fail).invoice_item
            /\ IF fail = "none"
               THEN /\ InvoiceListPage_refresh_invoice_list(detail_invoice_id)
                    /\ warning' = ""
               ELSE /\ UNCHANGED <<detail_invoice_id, detail_items, vat_table,
                                   detail_totals>>
                    /\ warning' = "Számla törlése sikertelen"
       ELSE /\ UNCHANGED <<invoice, invoice_item>>
            /\ UNCHANGED <<detail_invoice_id, detail_items, vat_table, detail_totals>>
            /\ warning' = ""
    /\ UNCHANGED <<partner, product>>
    /\ UNCHANGED <<calcVars, connVars, wizardVars, dialog, product_table>>

\* cap on the rowids of the invoices made with the invoice form
MaxFormInvoiceId == 3

\* the INSERT of InvoiceListPage.add_invoice and MainWindow.new_invoice with
\* the form accepted (InvoiceFormDialog.accept lets only a non-empty number
\* and a partner of the combo box through), then refresh_invoice_list, which
\* selects the first row.  Any exception, the IntegrityError of a number in
\* use among them, rolls the with block back and is shown with
\* QMessageBox.critical
insert_invoice(number, direction, partner_id) ==
    /\ dialog = << >>
    /\ partner_id \in DOMAIN partner
    /\ NewRowId(invoice) <= MaxFormInvoiceId
    /\ UNCHANGED <<partner, product, invoice_item>>
    /\ IF number_taken(invoice, number, 0)
       THEN /\ UNCHANGED invoice
            /\ UNCHANGED <<detail_invoice_id, detail_items, vat_table, detail_totals>>
            /\ warning' = "Számla létrehozása sikertelen"
       ELSE /\ invoice' = InsertRow(invoice,
                               [number |-> number, partner_id |-> partner_id,
                                direction |-> direction])
            /\ InvoiceListPage_refresh_invoice_list(0)
            /\ warning' = ""
    /\ UNCHANGED <<calcVars, connVars, wizardVars, dialog, product_table>>

InvoiceListPage_add_invoice(number, direction, partner_id) ==
    insert_invoice(number, direction, partner_id)

\* MainWindow.new_invoice: the same INSERT, then show_list and refresh
MainWindow_new_invoice(number, direction, partner_id) ==
    insert_invoice(number, direction, partner_id)

\* InvoiceListPage.edit_invoice on the selected row, the invoice the detail
\* widget shows, with the form accepted: UPDATE invoice SET number=?,
\* direction=?, partner_id=? WHERE id=?, then refresh_invoice_list
InvoiceListPage_edit_invoice(number, direction, partner_id) ==
    /\ dialog = << >>
    /\ detail_invoice_id \in DOMAIN invoice
    /\ partner_id \in DOMAIN partner
    /\ UNCHANGED <<partner, product, invoice_item>>
    /\ IF number_taken(invoice, number, detail_invoice_id)
       THEN /\ UNCHANGED invoice
            /\ UNCHANGED <<detail_invoice_id, detail_items, vat_table, detail_totals>>
            /\ warning' = "Számla szerkesztése sikertelen"
       ELSE /\ invoice' = [invoice EXCEPT ![detail_invoice_id] =
                               [number |-> number, partner_id |-> partner_id,
                                direction |-> direction]]
            /\ InvoiceListPage_refresh_invoice_list(0)
            /\ warning' = ""
    /\ UNCHANGED <<calcVars, connVars, wizardVars, dialog, product_table>>

ProductEditNext ==
    \E product_id \in EditedProducts \cap DOMAIN product,
       unit_price_cents \in EditPrices, vat_rate \in EditVats :
        ProductListPage_edit_item(product_id, product[product_id].sku,
                                  unit_price_cents, vat_rate)

ProductDeleteNext ==
    \E product_id \in DeletedProducts : ProductListPage_delete_item(product_id)

ManagementNext ==
    \/ \E inv_id \in 1..MaxInvoiceId : InvoiceDetailWidget_load_invoice(inv_id)
    \/ InvoiceDetailWidget_add_item
    \/ \E row \in 1..MaxItemId : InvoiceDetailWidget_edit_item(row)
    \/ \E product_id \in DialogProducts, quantity \in DialogQtys,
          spin \in DialogPriceSpins, vat_rate \in DialogVats :
            InvoiceItemDialog_accept(product_id, quantity, spin, vat_rate)
    \/ InvoiceItemDialog_reject
    \/ ProductEditNext
    \/ ProductDeleteNext

Init ==
    /\ lines = << >> /\ t = << >> /\ bt = << >>
    /\ InitDb /\ InitWizard /\ InitDetail

\* Spec: the wizard, on a database whose products are edited and deleted on
\* the product page of the management window meanwhile (both windows open
\* the file invoice_qt5.db of the working directory and commit every write)
Next == WizardNext \/ ProductEditNext \/ ProductDeleteNext

Spec == Init /\ [][Next]_vars

\* SpecNavigation: the wizard alone on the seeded database
SpecNavigation == Init /\ [][NextNavigation]_vars

\* SpecPartners: the wizard creating invoices on the seeded database
SpecPartners == Init /\ [][NextPartners]_vars

\* SpecItems: the items and review pages of the wizard on a database that
\* holds one invoice the wizard created earlier, with the product page of
\* the management window at work on the same file
InitItems ==
    /\ lines = << >> /\ t = << >> /\ bt = << >>
    /\ partner = SeedPartners
    /\ product = SeedProducts
    /\ invoice = (1 :> [number |-> "INV1", partner_id |-> 1, direction |-> "sale"])
    /\ invoice_item = << >>
    /\ InitWizard /\ InitDetail

NextItems ==
    \/ MainWindow_open_invoice(1)
    \/ \E idx \in ProductIdxs : MainWindow_add_item_via_selector(idx)
    \/ ItemsPage_key_delete
    \/ ItemsPage_key_left
    \/ ItemsPage_key_right
    \/ \E row \in 1..MaxItemId : ItemsPage_select_row(row)
    \/ MainWindow_to_review
    \/ MainWindow_back_to_items
    \/ MainWindow_finish_and_back_to_list
    \/ ProductEditNext
    \/ ProductDeleteNext

SpecItems == InitItems /\ [][NextItems]_vars

\* SpecManagement: the invoice and product pages of the management window,
\* on a database that holds one invoice
SpecManagement == InitItems /\ [][ManagementNext]_vars

\* SpecViews: the handlers of both windows that only display an invoice, on
\* every database that holds one invoice with up to MaxShown items
MaxShown == 3
ShownUnits == {50, 101}
ShownVats == {5, 18, 27}

ShownItemTables ==
    UNION { [1..n -> [invoice_id : {1}, product_id : {1}, qty : {1},
                      unit_price_cents : ShownUnits, vat_rate : ShownVats]]
            : n \in 0..MaxShown }

InitViews ==
    /\ lines = << >> /\ t = << >> /\ bt = << >>
    /\ partner = SeedPartners
    /\ product = SeedProducts
    /\ invoice = (1 :> [number |-> "INV1", partner_id |-> 1, direction |-> "sale"])
    /\ invoice_item \in ShownItemTables
    /\ InitWizard /\ InitDetail

NextViews ==
    \/ \E inv_id \in 1..MaxInvoiceId : MainWindow_open_invoice(inv_id)
    \/ \E row \in 1..MaxShown : ItemsPage_select_row(row)
    \/ MainWindow_to_review
    \/ MainWindow_back_to_items
    \/ MainWindow_finish_and_back_to_list
    \/ \E inv_id \in 1..MaxInvoiceId : InvoiceDetailWidget_load_invoice(inv_id)

SpecViews == InitViews /\ [][NextViews]_vars

\* the invoice list of the management window: two invoices and up to
\* MaxShown items spread over them
ListedInvoices == {1, 2}
ListedInvoiceRows ==
    (1 :> [number |-> "INV1", partner_id |-> 1, direction |-> "sale"]) @@
    (2 :> [number |-> "INV2", partner_id |-> 1, direction |-> "sale"])
ListedVats == {5, 27}

InitInvoices ==
    /\ lines = << >> /\ t = << >> /\ bt = << >>
    /\ partner = SeedPartners
    /\ product = SeedProducts
    /\ invoice = ListedInvoiceRows
    /\ \E n \in 0..MaxShown :
          invoice_item \in [1..n -> [invoice_id : ListedInvoices, product_id : {1},
                                     qty : {1}, unit_price_cents : {101},
                                     vat_rate : ListedVats]]
    /\ InitWizard /\ InitDetail

NextInvoices ==
    \/ \E inv_id \in ListedInvoices : InvoiceDetailWidget_load_invoice(inv_id)
    \/ \E reply \in {"Yes", "No"}, fail \in DeleteFailures :
            InvoiceListPage_delete_invoice(reply, fail)

SpecInvoices == InitInvoices /\ [][NextInvoices]_vars

\* the product page of the management window: products added, edited and
\* deleted, with SKUs that are new and SKUs that other rows have
FormSkus == {"SKU002", "SKU006", "SKU007"}
FormPrices == {50}
FormVats == {5, 27}
PageProducts == {1, 6}

NextProducts ==
    \/ \E sku \in FormSkus, unit_price_cents \in FormPrices, vat_rate \in FormVats :
            ProductListPage_add_item(sku, unit_price_cents, vat_rate)
    \/ \E sku \in FormSkus, unit_price_cents \in FormPrices, vat_rate \in FormVats,
          on_product_page \in BOOLEAN :
            MainWindow_new_product(sku, unit_price_cents, vat_rate, on_product_page)
    \/ \E product_id \in PageProducts, sku \in FormSkus \cup {"SKU001"},
          unit_price_cents \in FormPrices, vat_rate \in FormVats :
            ProductListPage_edit_item(product_id, sku, unit_price_cents, vat_rate)
    \/ \E product_id \in PageProducts \cup {2} : ProductListPage_delete_item(product_id)
    \/ MainWindow_show_products

SpecProducts == InitItems /\ [][NextProducts]_vars

\* the invoice form of the management window: invoices made, renamed and
\* deleted, with numbers that are new and numbers that other rows have
FormNumbers == {"INV1", "INV3"}
FormDirections == {"sale", "purchase"}
FormPartners == {1, 3}

InitInvoiceForms ==
    /\ lines = << >> /\ t = << >> /\ bt = << >>
    /\ partner = SeedPartners
    /\ product = SeedProducts
    /\ invoice = ListedInvoiceRows
    /\ invoice_item = << >>
    /\ InitWizard /\ InitDetail

NextInvoiceForms ==
    \/ \E number \in FormNumbers, direction \in FormDirections,
          partner_id \in FormPartners :
            InvoiceListPage_add_invoice(number, direction, partner_id)
    \/ \E number \in FormNumbers, direction \in FormDirections,
          partner_id \in FormPartners :
            MainWindow_new_invoice(number, direction, partner_id)
    \/ \E number \in FormNumbers \cup {"INV2"}, direction \in FormDirections,
          partner_id \in FormPartners :
            InvoiceListPage_edit_invoice(number, direction, partner_id)
    \/ \E inv_id \in 1..MaxFormInvoiceId : InvoiceDetailWidget_load_invoice(inv_id)
    \/ InvoiceListPage_delete_invoice("Yes", "none")

SpecInvoiceForms == InitInvoiceForms /\ [][NextInvoiceForms]_vars

\* the item dialog of the invoice page, on a database that holds one
\* invoice: what get_data can hand to accept.  Product 0 is the combo box's
\* first entry "-- Egyedi tétel --"; spin 29 is a price int() truncates.  The
\* spin boxes' ranges start at 0.01, so quantity 0 and price 0 stand for the
\* data the two checks of accept are there to turn away.
ItemFormProducts == {0, 3}
ItemFormQtys == {0, 1, 2}
ItemFormSpins == {0, 29, 50}
ItemFormVats == {5}

NextItemDialog ==
    \/ \E inv_id \in 1..MaxInvoiceId : InvoiceDetailWidget_load_invoice(inv_id)
    \/ InvoiceDetailWidget_add_item
    \/ \E row \in 1..MaxItemId : InvoiceDetailWidget_edit_item(row)
    \/ \E product_id \in ItemFormProducts, quantity \in ItemFormQtys,
          spin \in ItemFormSpins, vat_rate \in ItemFormVats :
            InvoiceItemDialog_accept(product_id, quantity, spin, vat_rate)
    \/ InvoiceItemDialog_reject

SpecItemDialog == InitItems /\ [][NextItemDialog]_vars

\* the invoice, product and partner pages of the management window at work
\* on one database: items are added and edited, products and partners are
\* deleted
NextReferences ==
    \/ NextItemDialog
    \/ \E product_id \in ItemFormProducts : ProductListPage_delete_item(product_id)
    \/ \E partner_id \in FormPartners : PartnerListPage_delete_item(partner_id)

SpecReferences == InitItems /\ [][NextReferences]_vars

\* ------------------------------------------- SpecTotals: the calculators
\* on every line-item list up to MaxLen

LineItems == [qty : Qtys, unit : Units, vat : Vats]

\* every list of up to MaxLen items, as list_items returns it (the
\* calculators read qty, unit and vat of a row)
InitTotals ==
    /\ \E n \in 0..MaxLen : lines \in [1..n -> LineItems]
    /\ t = << >>
    /\ bt = << >>
    /\ InitDb /\ InitWizard /\ InitDetail

CallServiceTotals ==
    /\ t = << >>
    /\ t' = << Service_totals(lines) >>
    /\ UNCHANGED <<lines, bt, dbVars, connVars, warning, wizardVars, detailVars>>

CallCalculateTotals ==
    /\ bt = << >>
    /\ bt' = << BusinessService_calculate_totals(lines) >>
    /\ UNCHANGED <<lines, t, dbVars, connVars, warning, wizardVars, detailVars>>

NextTotals == CallServiceTotals \/ CallCalculateTotals

SpecTotals == InitTotals /\ [][NextTotals]_vars

\* ----------------------------------------- db.py: get_db, init_database

\* caps on the connections made and on the calls of init_database counted
MaxConnections == 3
MaxInitCalls == 2

\* sqlite3.connect(db_path): an open connection with no transaction begun.
\* uncommitted names the tables whose seed rows the connection has inserted
\* but not committed
NewConnection == [open |-> TRUE, uncommitted |-> {}]

\* conn.close(): an open transaction is rolled back
ClosedConnection == [open |-> FALSE, uncommitted |-> {}]

\* get_db(connection), 0 standing for None: the connections there are after
\* the call, and the index of the one it returns
get_db_connections(connection) ==
    IF connection = 0 THEN Append(connections, NewConnection) ELSE connections

get_db(connection) == IF connection = 0 THEN Len(connections) + 1 ELSE connection

\* the rows of a table as a connection reads them: the committed rows, or
\* the seed rows it inserted itself into the empty table
SeenBy(conn, name, table, seed) == IF name \in conn.uncommitted THEN seed ELSE table

\* another connection is inside a write transaction: an INSERT on c fails
\* with "database is locked"
LockedFor(conns, c) ==
    \E d \in 1..Len(conns) : d # c /\ conns[d].open /\ conns[d].uncommitted # {}

\* where a call of init_database can raise: in the PRAGMAs or the schema
\* script before anything is written (48-87), at the seeding of the products
\* (89-101), at the seeding of the partners (103-123), at the commit (124);
\* "none" is the call that returns normally
InitFailures == {"none", "schema", "products", "partners", "commit"}

\* variant: the partners are seeded without looking at the table
seed_partners_always(table) ==
    InsertRow(InsertRow(InsertRow(table, SeedPartners[1]), SeedPartners[2]),
              SeedPartners[3])

\* if conn.execute("SELECT COUNT(*) FROM partner").fetchone()[0] == 0:
\*     conn.executemany("INSERT INTO partner ...", partners)
seed_partners(table) == IF DOMAIN table = {} THEN SeedPartners ELSE table

\* variant: the products are topped up whenever fewer than the five seed
\* rows are there
seed_products_if_incomplete(table) ==
    IF Cardinality(DOMAIN table) < 5 THEN SeedProducts ELSE table

\* if conn.execute("SELECT COUNT(*) FROM product").fetchone()[0] == 0:
\*     conn.executemany("INSERT INTO product ...", products)
seed_products(table) == IF DOMAIN table = {} THEN SeedProducts ELSE table

\* close_anyway: the variant of line 126 that closes whatever connection
\* the call worked on
should_close_always(connection) == TRUE

\* should_close = connection is None
should_close(connection) == connection = 0

\* init_database(connection) raising at fail, or returning when fail is
\* "none".  executescript first commits the transaction the connection has
\* open; the rows the seeding inserts are committed by line 124 only, and
\* the finally clause closes the connection the call opened itself
init_database(connection, fail) ==
    /\ connection = 0 => Len(connections) < MaxConnections
    /\ connection # 0 => connection \in 1..Len(connections) /\ connections[connection].open
    /\ fail = "none" => init_calls < MaxInitCalls
    /\ LET conns    == get_db_connections(connection)
           c        == get_db(connection)
           product1 == SeenBy(conns[c], "product", product, SeedProducts)
           partner1 == SeenBy(conns[c], "partner", partner, SeedPartners)
           product2 == IF fail \in {"partners", "commit", "none"}
                       THEN seed_products(product1) ELSE product1
           partner2 == IF fail \in {"commit", "none"}
                       THEN seed_partners(partner1) ELSE partner1
           inserted == (IF product2 # product1 THEN {"product"} ELSE {})
                       \cup (IF partner2 # partner1 THEN {"partner"} ELSE {})
           after    == IF should_close(connection) THEN ClosedConnection
                       ELSE IF fail = "schema" THEN conns[c]
                       ELSE IF fail = "none" THEN NewConnection
                       ELSE [open |-> TRUE, uncommitted |-> inserted]
       IN  /\ inserted # {} => ~LockedFor(conns, c)
           /\ connections' = [conns EXCEPT ![c] = after]
           /\ product' = IF fail = "schema" THEN product
                         ELSE IF fail = "none" THEN product2 ELSE product1
           /\ partner' = IF fail = "schema" THEN partner
                         ELSE IF fail = "none" THEN partner2 ELSE partner1
           /\ init_calls' = IF fail = "none" THEN init_calls + 1 ELSE init_calls
    /\ UNCHANGED <<invoice, invoice_item>>
    /\ UNCHANGED <<calcVars, wizardVars, detailVars, warning>>

\* the code around init_database makes a connection of its own
\* (tests/conftest.py: root_conn = original_connect(...))
Caller_connect ==
    /\ Len(connections) < MaxConnections
    /\ connections' = Append(connections, NewConnection)
    /\ UNCHANGED <<calcVars, dbVars, wizardVars, detailVars, warning, init_calls>>

\* ... and closes it (root_conn.close())
Caller_close(c) ==
    /\ c \in 1..Len(connections)
    /\ connections[c].open
    /\ connections' = [connections EXCEPT ![c] = ClosedConnection]
    /\ UNCHANGED <<calcVars, dbVars, wizardVars, detailVars, warning, init_calls>>

\* the database the management window finds at its start: the new file
\* without rows, the seeded one, or one whose products or partners the user
\* has deleted in part; one invoice with one item
StartProducts == { << >>, SeedProducts, [id \in {2, 3} |-> SeedProducts[id]] }
StartPartners == { << >>, SeedPartners, [id \in {1} |-> SeedPartners[id]] }

InitDatabase ==
    /\ product \in StartProducts
    /\ partner \in StartPartners
    /\ invoice = (1 :> [number |-> "INV1", partner_id |-> 1, direction |-> "sale"])
    /\ invoice_item = (1 :> [invoice_id |-> 1, product_id |-> 2, qty |-> 1,
                              unit_price_cents |-> 39900, vat_rate |-> 18])
    /\ lines = << >> /\ t = << >> /\ bt = << >>
    /\ InitWizard /\ InitDetail

NextDatabase ==
    \/ \E connection \in 0..MaxConnections, fail \in InitFailures :
            init_database(connection, fail)
    \/ Caller_connect
    \/ \E c \in 1..MaxConnections : Caller_close(c)

SpecDatabase == InitDatabase /\ [][NextDatabase]_vars

\* the calculators called with items the callers do not rule out: the
\* columns qty, unit_price_cents and vat_rate are plain INTEGER columns, and
\* neither calculator looks at the sign before it computes
OddQtys == {-1, 2}
OddUnits == {-50, 101}
OddVats == {-5, 27}
OddLineItems == [qty : OddQtys, unit : OddUnits, vat : OddVats]

InitOddTotals ==
    /\ \E n \in 0..MaxLen : lines \in [1..n -> OddLineItems]
    /\ t = << >>
    /\ bt = << >>
    /\ InitDb /\ InitWizard /\ InitDetail

SpecOddTotals == InitOddTotals /\ [][NextTotals]_vars

\* ------------------------------------------------ properties of the totals

\* the results computed so far, by either calculator
Results == { t[i] : i \in 1..Len(t) } \cup { bt[i] : i \in 1..Len(bt) }
BothComputed == t # << >> /\ bt # << >>

\* sum of quantity * unit_price over the items ls[1..n] whose rate is in S
RECURSIVE SumNetWhere(_, _, _)
SumNetWhere(ls, n, S) ==
    IF n = 0 THEN 0
    ELSE SumNetWhere(ls, n - 1, S)
         + (IF ls[n].vat \in S THEN ls[n].qty * ls[n].unit ELSE 0)

RatesIn(ls) == { ls[i].vat : i \in 1..Len(ls) }

RECURSIVE SumField(_, _, _)
SumField(rates, n, field) ==
    IF n = 0 THEN 0 ELSE SumField(rates, n - 1, field) + rates[n][field]

\* round-half-up of n / d for d > 0: floor(n/d + 1/2)
RoundHalfUpDiv(n, d) == (2 * n + d) \div (2 * d)

\* C1: the net of the totals equals the exact integer sum of
\* quantity * unit_price over all the line items
C1_NetIsExactSum ==
    \A r \in Results : r.net = SumNetWhere(lines, Len(lines), RatesIn(lines))

C1_Witness ==
    /\ BothComputed
    /\ Len(lines) = 3
    /\ \E i \in 1..3 : lines[i].qty = 2
    /\ t[1].net = 2 * 101 + 50 + 69900

\* C2: the tax total is the sum of the per-bucket tax amounts, each rounded
\* on its own; the sum is not rounded again
C2_TaxIsSumOfBucketTaxes ==
    \A r \in Results : r.vat = SumField(r.rates, Len(r.rates), "vat")

\* two buckets that both round down (2.5 -> 2, 27.27 -> 27) while the
\* unrounded sum 29.77 would round to 30
C2_Witness ==
    /\ BothComputed
    /\ Len(t[1].rates) = 2
    /\ t[1].vat = 29
    /\ PyRoundDiv(raw_vat_sum(t[1].rates, 2), 100) = 30

\* C3: for a non-empty list of line items, gross = net + tax
C3_GrossIsNetPlusTax ==
    \A r \in Results : Len(lines) > 0 => r.gross = r.net + r.vat

C3_Witness ==
    /\ BothComputed
    /\ Len(lines) > 0
    /\ t[1].vat > 0
    /\ t[1].gross > t[1].net

\* C4: every bucket's tax amount is round_half_up(B * R / 100), ties upwards
C4_BucketTaxRoundsHalfUp ==
    \A r \in Results : \A i \in 1..Len(r.rates) :
        r.rates[i].vat = RoundHalfUpDiv(r.rates[i].base * r.rates[i].rate, 100)

\* C5: one bucket per distinct rate of the line items, each with the sum of
\* quantity * unit_price of exactly the items of that rate as its net base
C5_OneBucketPerRate ==
    \A r \in Results :
        /\ \A i, j \in 1..Len(r.rates) : r.rates[i].rate = r.rates[j].rate => i = j
        /\ { r.rates[i].rate : i \in 1..Len(r.rates) } = RatesIn(lines)
        /\ \A i \in 1..Len(r.rates) :
              r.rates[i].base = SumNetWhere(lines, Len(lines), {r.rates[i].rate})
        /\ SumField(r.rates, Len(r.rates), "base") = r.net

\* items of rates 27, 5, 27 in this order: the 27 % bucket collects two items
C5_Witness ==
    /\ BothComputed
    /\ Len(lines) = 3
    /\ lines[1].vat = 27 /\ lines[2].vat = 5 /\ lines[3].vat = 27
    /\ \A i \in 1..3 : lines[i].qty > 0
    /\ Len(t[1].rates) = 2

\* ------------------------------------- properties of the wizard's pages

\* the invoice_item rows of an invoice, in id order, in the shape of the rows
\* of list_items but without the join with product
LineItemsOf(ii, inv_id) ==
    LET ids == detail_item_ids(ii, inv_id)
    IN  [i \in 1..Len(ids) |->
            [id   |-> ids[i],
             qty  |-> ii[ids[i]].qty,
             unit |-> ii[ids[i]].unit_price_cents,
             vat  |-> ii[ids[i]].vat_rate]]

ZeroTotals == [net |-> 0, vat |-> 0, gross |-> 0, rates |-> << >>]

\* C6: for an invoice with no line items the totals shown on the items page
\* and on the review page are net = 0, tax = 0, gross = 0 with an empty rate
\* breakdown, and the review page lists no breakdown line
C6_EmptyInvoiceTotalsZero ==
    /\ (page = "items" /\ LineItemsOf(invoice_item, items_inv_id) = << >>)
            => items_totals = << ZeroTotals >>
    /\ (page = "review" /\ LineItemsOf(invoice_item, review_inv_id) = << >>)
            => (review_totals = << ZeroTotals >> /\ review_details = << >>)

\* the review page shows an invoice without items
C6_Witness ==
    /\ page = "review"
    /\ review_inv_id = 1
    /\ LineItemsOf(invoice_item, 1) = << >>
    /\ review_totals = << ZeroTotals >>
    /\ review_details = << >>

\* ascending order of the rate column of a rendered breakdown
StrictlyAscending(rows) ==
    \A i, j \in 1..Len(rows) : i < j => rows[i].rate < rows[j].rate

\* C7: a rendered rate breakdown (the details of the review page, the VAT
\* summary table of the invoice detail widget) has its rows in strictly
\* ascending rate order, whatever the order in which the items were added
C7_BreakdownAscending ==
    /\ StrictlyAscending(review_details)
    /\ StrictlyAscending(vat_table)

\* items added at 27 %, 18 %, 5 % in this order, rendered by both windows
C7_Witness ==
    /\ Len(LineItemsOf(invoice_item, 1)) = 3
    /\ invoice_item[1].vat_rate = 27
    /\ invoice_item[2].vat_rate = 18
    /\ invoice_item[3].vat_rate = 5
    /\ Len(review_details) = 3
    /\ Len(vat_table) = 3
    /\ review_details[1].rate = 5
    /\ vat_table[1].rate = 5

\* a step of ProductListPage.edit_item that changed a product row
ProductEdited == DOMAIN product' = DOMAIN product /\ product' # product

C9_SameItemsSameTotals ==
    [][ ( /\ page = "items"
          /\ page' = "review"
          /\ items_totals # << >>
          /\ items_table = LineItemsOf(invoice_item, items_inv_id)
          /\ invoice_item' = invoice_item )
        => review_totals' = items_totals
      ]_vars

\* C10: computing and displaying totals writes nothing: the steps that open
\* the items page, the review page or the invoice detail widget leave every
\* partner, product, invoice and invoice_item row as it was
C10_TotalsWriteNothing ==
    [][ ( \/ items_totals' # items_totals
          \/ review_totals' # review_totals
          \/ detail_totals' # detail_totals
          \/ page' # page )
        => UNCHANGED dbVars
      ]_vars

\* all three displays have computed the totals of an invoice with items
C10_Witness ==
    /\ invoice_item # << >>
    /\ page = "review"
    /\ items_totals # << >> /\ items_totals[1].gross > 0
    /\ review_totals = items_totals
    /\ detail_totals # << >> /\ detail_totals[1].gross > 0

\* ------------------------- properties of the invoice detail widget

\* an amount x, held by load_items in units of 1/10000 forint, is shown by
\* f"{x:.2f}" as c minor units: c is an integer nearest to x / 100 (which
\* neighbour an exact tie is shown as depends on the double, so both pass)
ShowsCents(x, c) ==
    LET diff == IF x >= 100 * c THEN x - 100 * c ELSE 100 * c - x
    IN  2 * diff <= 100

\* the totals the calculator produces for the line items the detail widget
\* has loaded
CalculatorOfDetail == Service_totals(LineItemsOf(invoice_item, detail_invoice_id))

\* C11: the net, tax, gross and per-rate net and tax amounts the invoice
\* detail widget shows are, in minor units, the values the totals
\* calculator produces for the same line items
C11_DetailShowsCalculatorTotals ==
    detail_totals # << >> =>
        LET c == CalculatorOfDetail
            r == sorted(c.rates)
        IN  /\ ShowsCents(detail_totals[1].net, c.net)
            /\ ShowsCents(detail_totals[1].vat, c.vat)
            /\ ShowsCents(detail_totals[1].gross, c.gross)
            /\ Len(vat_table) = Len(r)
            /\ \A i \in 1..Len(r) :
                  /\ vat_table[i].rate = r[i].rate
                  /\ ShowsCents(vat_table[i].net, r[i].base)
                  /\ ShowsCents(vat_table[i].vat, r[i].vat)

\* an amount held in units of 1/10000 forint is a whole number of minor units
WholeMinorUnits(x) == x % 100 = 0

\* C12: the totals arithmetic stays in integer minor units: every amount the
\* invoice detail widget computes (totals and per-rate net, tax and gross)
\* is a whole number of minor units
C12_AmountsAreWholeMinorUnits ==
    /\ \A i \in 1..Len(detail_totals) :
          /\ WholeMinorUnits(detail_totals[i].net)
          /\ WholeMinorUnits(detail_totals[i].vat)
          /\ WholeMinorUnits(detail_totals[i].gross)
    /\ \A i \in 1..Len(vat_table) :
          /\ WholeMinorUnits(vat_table[i].net)
          /\ WholeMinorUnits(vat_table[i].vat)
          /\ WholeMinorUnits(vat_table[i].gross)

\* the minor units f"{x:.2f}" can show for an amount x held in units of
\* 1/10000 forint, x >= 0: the nearest integer to x / 100, an exact tie
\* going down (ShownLow) or up (ShownHigh) as the double falls
ShownLow(x) == (x + 49) \div 100
ShownHigh(x) == (x + 50) \div 100

RECURSIVE SumShownLow(_, _, _)
SumShownLow(rows, n, field) ==
    IF n = 0 THEN 0 ELSE SumShownLow(rows, n - 1, field) + ShownLow(rows[n][field])

RECURSIVE SumShownHigh(_, _, _)
SumShownHigh(rows, n, field) ==
    IF n = 0 THEN 0 ELSE SumShownHigh(rows, n - 1, field) + ShownHigh(rows[n][field])

\* some way of showing x lies between lo and hi
ShownWithin(x, lo, hi) == \E c \in ShownLow(x)..ShownHigh(x) : lo <= c /\ c <= hi

\* C13: in the VAT breakdown of the invoice detail widget every bucket's
\* gross is its net plus its VAT, and the totals are the sums over the
\* buckets: total net = sum of bucket nets, total VAT = sum of bucket VATs,
\* total gross = total net + total VAT (amounts as the widget shows them)
C13_BreakdownAddsUp ==
    detail_totals # << >> =>
        LET n == Len(vat_table)
            tot == detail_totals[1]
        IN  /\ \A i \in 1..n :
                  ShownWithin(vat_table[i].gross,
                              ShownLow(vat_table[i].net) + ShownLow(vat_table[i].vat),
                              ShownHigh(vat_table[i].net) + ShownHigh(vat_table[i].vat))
            /\ ShownWithin(tot.net, SumShownLow(vat_table, n, "net"),
                                    SumShownHigh(vat_table, n, "net"))
            /\ ShownWithin(tot.vat, SumShownLow(vat_table, n, "vat"),
                                    SumShownHigh(vat_table, n, "vat"))
            /\ ShownWithin(tot.gross, ShownLow(tot.net) + ShownLow(tot.vat),
                                      ShownHigh(tot.net) + ShownHigh(tot.vat))

\* ------------------------------------------ properties of odd line items

\* the rates all of whose items have quantity 0
ZeroRates(ls) ==
    { r \in RatesIn(ls) : \A i \in 1..Len(ls) : ls[i].vat = r => ls[i].qty = 0 }

\* C14: an item of quantity 0 still gets a bucket for its rate; when it is
\* alone at that rate the bucket has base 0 and tax 0, and the item adds
\* nothing to the totals (they are those of the items of the other rates)
C14_ZeroQuantityKeepsItsBucket ==
    \A r \in Results :
        /\ \A i \in 1..Len(lines) :
              lines[i].qty = 0 => \E k \in 1..Len(r.rates) : r.rates[k].rate = lines[i].vat
        /\ \A k \in 1..Len(r.rates) :
              r.rates[k].rate \in ZeroRates(lines) =>
                  r.rates[k].base = 0 /\ r.rates[k].vat = 0
        /\ r.net = SumNetWhere(lines, Len(lines), RatesIn(lines) \ ZeroRates(lines))

\* a 5 % item of quantity 0 next to a 27 % item of quantity 2
C14_Witness ==
    /\ BothComputed
    /\ Len(lines) = 2
    /\ lines[1].qty = 0 /\ lines[1].vat = 5
    /\ lines[2].qty = 2 /\ lines[2].vat = 27
    /\ Len(t[1].rates) = 2
    /\ t[1].rates[1] = [rate |-> 5, base |-> 0, vat |-> 0]

HasNegativeItem(ls) ==
    \E i \in 1..Len(ls) : ls[i].qty < 0 \/ ls[i].unit < 0 \/ ls[i].vat < 0

\* a calculator's answer that is an error report, not totals
ReportsError(r) == "error" \in DOMAIN r

\* C15 as stated: when an item has a negative quantity, unit price or rate,
\* the calculator reports InvalidLineItem instead of returning totals
C15_NegativeItemIsRejected ==
    HasNegativeItem(lines) => \A r \in Results : ReportsError(r)

\* C15, amended: the calculators do not look at the signs; for items with a
\* negative quantity, unit price or rate they return totals computed by the
\* usual formulas and never report InvalidLineItem
C15_NegativeItemIsComputed ==
    HasNegativeItem(lines) =>
        \A r \in Results :
            /\ ~ReportsError(r)
            /\ r.net = SumNetWhere(lines, Len(lines), RatesIn(lines))
            /\ r.vat = SumField(r.rates, Len(r.rates), "vat")
            /\ r.gross = r.net + r.vat
            /\ \A k \in 1..Len(r.rates) :
                  r.rates[k].vat = PyRoundDiv(r.rates[k].base * r.rates[k].rate, 100)

\* one item of quantity -1 at 101 and 27 %: net -101, tax round(-27.27) = -27
C15_Witness ==
    /\ BothComputed
    /\ Len(lines) = 1
    /\ lines[1] = [qty |-> -1, unit |-> 101, vat |-> 27]
    /\ t[1].net = -101 /\ t[1].vat = -27 /\ t[1].gross = -128
    /\ bt[1] = t[1]

\* ------------------------------------------- properties of init_database

\* a step of init_database that returned normally
InitDatabaseReturned == init_calls' = init_calls + 1

\* C16: init_database is idempotent: a call on a database that a call has
\* already initialised leaves the partner, product, invoice and invoice_item
\* tables exactly as they were; no seed row is inserted a second time
C16_InitDatabaseIdempotent ==
    [][(init_calls >= 1 /\ InitDatabaseReturned) => UNCHANGED dbVars]_vars

\* the new file after two calls: seeded once, both connections closed
C16_Witness ==
    /\ init_calls = 2
    /\ product = SeedProducts
    /\ partner = SeedPartners
    /\ Len(connections) = 2
    /\ \A c \in 1..2 : ~connections[c].open

\* C17: init_database closes the connection exactly when it opened it
\* itself: the connection a call makes is closed when the call ends, also
\* when it raises, and every connection there was before, the one the
\* caller handed in among them, is as open or closed as it was
C17_ClosesOnlyItsOwnConnection ==
    [][(\E connection \in 0..MaxConnections, fail \in InitFailures :
            init_database(connection, fail))
       => /\ \A c \in 1..Len(connections) :
                 connections'[c].open = connections[c].open
          /\ \A c \in (Len(connections) + 1)..Len(connections') :
                 ~connections'[c].open]_vars

\* a call on the caller's connection raised at the commit and left it
\* open with the seed rows uncommitted; a later call that had to make its
\* own connection raised too and closed it
C17_Witness ==
    /\ init_calls = 0
    /\ Len(connections) = 2
    /\ connections[1].open
    /\ connections[1].uncommitted = {"product", "partner"}
    /\ ~connections[2].open

\* ---------------------------------------- properties of the items page

\* C18: on the items page every quantity is an integer >= 0: a new item
\* starts at 1, Right/Enter adds exactly 1 to the selected item, Left takes
\* exactly 1 off it but never goes below 0, and no key changes the
\* quantity of an item that is not the selected one
C18_QuantitiesStepByOne ==
    [][LET sel == ItemsPage_selected_item_id
       IN  /\ \A id \in DOMAIN invoice_item' : invoice_item'[id].qty \in Nat
           /\ \A id \in DOMAIN invoice_item' \ DOMAIN invoice_item :
                 invoice_item'[id].qty = 1
           /\ ItemsPage_key_right => invoice_item'[sel].qty = invoice_item[sel].qty + 1
           /\ ItemsPage_key_left =>
                 invoice_item'[sel].qty = IF invoice_item[sel].qty = 0 THEN 0
                                          ELSE invoice_item[sel].qty - 1
           /\ \A id \in DOMAIN invoice_item' \cap DOMAIN invoice_item :
                 id # sel => invoice_item'[id].qty = invoice_item[id].qty]_vars

\* two items on the page: one taken down to 0 with Left, the other raised
\* to 2 with Right
C18_Witness ==
    /\ page = "items"
    /\ DOMAIN invoice_item = {1, 2}
    /\ invoice_item[1].qty = 0
    /\ invoice_item[2].qty = 2
    /\ Len(items_table) = 2

\* ---------------------------- properties of the management window's pages

ItemsOfInvoice(ii, inv_id) == { id \in DOMAIN ii : ii[id].invoice_id = inv_id }

\* C19: a confirmed delete_invoice removes the invoice row and every item
\* row of that invoice together, and leaves all other invoices and items as
\* they are; when the user declines, or the deletion raises, no row is
\* removed
C19_DeleteInvoiceAllOrNothing ==
    [][\A reply \in {"Yes", "No"}, fail \in DeleteFailures :
          InvoiceListPage_delete_invoice(reply, fail) =>
              IF reply = "Yes" /\ fail = "none"
              THEN /\ DOMAIN invoice' = DOMAIN invoice \ {detail_invoice_id}
                   /\ \A id \in DOMAIN invoice' : invoice'[id] = invoice[id]
                   /\ DOMAIN invoice_item' =
                          DOMAIN invoice_item
                              \ ItemsOfInvoice(invoice_item, detail_invoice_id)
                   /\ \A id \in DOMAIN invoice_item' :
                          invoice_item'[id] = invoice_item[id]
              ELSE UNCHANGED <<invoice, invoice_item>>]_vars

\* invoice 1 was deleted with its first item, invoice 2 and its item are
\* there, and a further deletion has just failed
C19_Witness ==
    /\ DOMAIN invoice = {2}
    /\ DOMAIN invoice_item = {2}
    /\ invoice_item[2].invoice_id = 2
    /\ detail_invoice_id = 2
    /\ warning = "Számla törlése sikertelen"

UniqueSkus(table) ==
    \A i, j \in DOMAIN table : table[i].sku = table[j].sku => i = j

SkusOf(table) == { table[id].sku : id \in DOMAIN table }

\* C20: no two product rows share a SKU, whatever is added and edited; an
\* add whose SKU a row already has, or an edit to the SKU of another row, is
\* answered with 'Ez a SKU már létezik!' and leaves the product table as
\* it is
C20_SkusStayUnique ==
    [][/\ UniqueSkus(product) /\ UniqueSkus(product')
       /\ \A sku \in SkusOf(product), unit_price_cents \in FormPrices,
             vat_rate \in FormVats :
              (\/ ProductListPage_add_item(sku, unit_price_cents, vat_rate)
               \/ \E on_product_page \in BOOLEAN :
                      MainWindow_new_product(sku, unit_price_cents, vat_rate,
                                             on_product_page))
              => warning' = "Ez a SKU már létezik!" /\ product' = product
       /\ \A product_id \in DOMAIN product :
          \A sku \in SkusOf(product) \ {product[product_id].sku},
             unit_price_cents \in FormPrices, vat_rate \in FormVats :
              ProductListPage_edit_item(product_id, sku, unit_price_cents, vat_rate)
              => warning' = "Ez a SKU már létezik!" /\ product' = product]_vars

\* SKU006 was added as the sixth product, and the attempt to give it (or
\* another new product) the SKU of product 2 has just been refused
C20_Witness ==
    /\ 6 \in DOMAIN product
    /\ product[6].sku = "SKU006"
    /\ 2 \in DOMAIN product
    /\ product[2].sku = "SKU002"
    /\ warning = "Ez a SKU már létezik!"

UniqueNumbers(table) ==
    \A i, j \in DOMAIN table : table[i].number = table[j].number => i = j

NumbersOf(table) == { table[id].number : id \in DOMAIN table }

\* C21: no two invoices share a number, whatever is created and edited;
\* creating an invoice with a number in use, or renaming one to the number
\* of another, ends with an error message and leaves the invoice table as
\* it is
C21_NumbersStayUnique ==
    [][/\ UniqueNumbers(invoice) /\ UniqueNumbers(invoice')
       /\ \A number \in NumbersOf(invoice), direction \in FormDirections,
             partner_id \in FormPartners :
              (\/ InvoiceListPage_add_invoice(number, direction, partner_id)
               \/ MainWindow_new_invoice(number, direction, partner_id))
              => warning' = "Számla létrehozása sikertelen" /\ invoice' = invoice
       /\ detail_invoice_id \in DOMAIN invoice =>
              \A number \in NumbersOf(invoice) \ {invoice[detail_invoice_id].number},
                 direction \in FormDirections, partner_id \in FormPartners :
                  InvoiceListPage_edit_invoice(number, direction, partner_id)
                  => warning' = "Számla szerkesztése sikertelen" /\ invoice' = invoice]_vars

\* INV3 was made as the third invoice, and renaming it to the number of
\* another invoice has just been refused
C21_Witness ==
    /\ DOMAIN invoice = {1, 2, 3}
    /\ invoice[3].number = "INV3"
    /\ detail_invoice_id = 3
    /\ warning = "Számla szerkesztése sikertelen"

\* C22: a call of init_database that returns inserts the five seed products
\* exactly when the product table, as the call's connection reads it, has no
\* rows, and the three seed partners exactly when the partner table has no
\* rows; each table is decided on its own, and a table that has rows is left
\* as it is
C22_SeedsEachEmptyTable ==
    [][\A connection \in 0..MaxConnections :
            init_database(connection, "none") =>
                LET conns    == get_db_connections(connection)
                    c        == get_db(connection)
                    products == SeenBy(conns[c], "product", product, SeedProducts)
                    partners == SeenBy(conns[c], "partner", partner, SeedPartners)
                IN  /\ DOMAIN products = {} => product' = SeedProducts
                    /\ DOMAIN products # {} => product' = products
                    /\ DOMAIN partners = {} => partner' = SeedPartners
                    /\ DOMAIN partners # {} => partner' = partners]_vars

\* a start has seeded the products again and has left alone the one partner
\* the user kept
C22_Witness ==
    /\ init_calls >= 1
    /\ product = SeedProducts
    /\ partner = [id \in {1} |-> SeedPartners[id]]
    /\ \A c \in 1..Len(connections) : ~connections[c].open

\* the rows of table b that table a does not have, and the rows of a that
\* b has with another content
RowsAdded(a, b) == DOMAIN b \ DOMAIN a
RowsChanged(a, b) == { id \in DOMAIN a \cap DOMAIN b : a[id] # b[id] }

\* C23: InvoiceItemDialog.accept writes nothing when the quantity is <= 0 or
\* the unit price in cents is <= 0; otherwise it writes exactly one
\* invoice_item row: with an item_id that row gets the form's data, no other
\* row changes and none is inserted; without an item_id exactly one row is
\* inserted, for the dialog's invoice_id, and no row changes; the dialog
\* closes as accepted only when the row was written
C23_AcceptWritesOneRow ==
    [][\A product_id \in ItemFormProducts, quantity \in ItemFormQtys,
          spin \in ItemFormSpins, vat_rate \in ItemFormVats :
            InvoiceItemDialog_accept(product_id, quantity, spin, vat_rate) =>
                LET d       == dialog[1]
                    added   == RowsAdded(invoice_item, invoice_item')
                    changed == RowsChanged(invoice_item, invoice_item')
                    written ==
                        IF d.item_id # 0
                        THEN /\ added = {}
                             /\ changed \subseteq {d.item_id}
                             /\ DOMAIN invoice_item' = DOMAIN invoice_item
                             /\ invoice_item'[d.item_id] =
                                    [invoice_id |-> invoice_item[d.item_id].invoice_id,
                                     product_id |-> product_id, qty |-> quantity,
                                     unit_price_cents |-> SpinToCents(spin),
                                     vat_rate |-> vat_rate]
                        ELSE /\ Cardinality(added) = 1
                             /\ changed = {}
                             /\ DOMAIN invoice_item \subseteq DOMAIN invoice_item'
                             /\ \A id \in added :
                                    invoice_item'[id].invoice_id = d.invoice_id
                IN  /\ (quantity <= 0 \/ SpinToCents(spin) <= 0)
                        => invoice_item' = invoice_item
                    /\ (quantity > 0 /\ SpinToCents(spin) > 0) => written
                    /\ dialog' = << >> => written]_vars

\* C24: after any sequence of operations of the management pages every
\* invoice references an existing partner, and every invoice item references
\* an existing invoice and an existing product
C24_ReferencesExist ==
    /\ \A id \in DOMAIN invoice : invoice[id].partner_id \in DOMAIN partner
    /\ \A id \in DOMAIN invoice_item :
        /\ invoice_item[id].invoice_id \in DOMAIN invoice
        /\ invoice_item[id].product_id \in DOMAIN product

\* C25: in every reachable state of the wizard, current_inv_id is not None
\* (0 here) when the items page or the review page is current, and is None
\* when the invoice list page or the direction page is current
C25_CurrentInvoiceFollowsPage ==
    /\ page \in {"items", "review"} => current_inv_id # 0
    /\ page \in {"list", "dir"} => current_inv_id = 0

\* the wizard is back on the list after it has finished an invoice
C25_Witness ==
    /\ page = "list"
    /\ current_inv_id = 0
    /\ DOMAIN invoice # {}
    /\ review_inv_id \in DOMAIN invoice

\* C26: every invoice the wizard has created has a partner whose kind
\* matches the invoice's direction, 'customer' for 'sale' and 'supplier' for
\* 'purchase', also after partners were added and deleted in the partner
\* dialog
C26_PartnerKindMatchesDirection ==
    \A id \in DOMAIN invoice :
        /\ invoice[id].partner_id \in DOMAIN partner
        /\ invoice[id].direction = "sale"
            => partner[invoice[id].partner_id].kind = "customer"
        /\ invoice[id].direction = "purchase"
            => partner[invoice[id].partner_id].kind = "supplier"

\* a purchase invoice for a supplier that was added in the dialog, after a
\* seed partner was deleted there
C26_Witness ==
    /\ \E id \in DOMAIN invoice :
        /\ invoice[id].direction = "purchase"
        /\ invoice[id].partner_id \notin DOMAIN SeedPartners
    /\ \E id \in DOMAIN SeedPartners : id \notin DOMAIN partner

====
